---- MODULE Spec2Model ----
(***************************************************************************)
(* A model of swechain-mcp-server (src/src/swechain-mcp-server.go): the    *)
(* subprocess runner runCommand, the paginated fetch fetchPaginatedData,   *)
(* the record parsers, the aggregation buildAuctionSummaryResponse and the *)
(* eleven tool handlers.                                                   *)
(*                                                                         *)
(* A Go string is a sequence of tokens.  A token is one character, or one  *)
(* whole JSON document written by the external program.  A JSON value is a *)
(* record [t, s, n, a, o]: its type tag, string, number, array items and   *)
(* object members.                                                         *)
(***************************************************************************)
EXTENDS Integers, Sequences, FiniteSets, TLC

VARIABLES
    chain,      \* what the external program answers from: the ledger's contents
    rc,         \* the frame of the runCommand call in progress; launched
                \* counts the subprocesses it has started
    outs,       \* what each attempt of that call ended with, in order
    slept,      \* the time.Sleep calls of that call, in seconds, in order
    f,          \* the frame of the fetchPaginatedData call in progress; stop
                \* says why its loop was left, errors counts the runCommand
                \* errors it was handed
    requested,  \* the page offsets that call handed to runCommand, in order
    served,     \* the non-empty pages that call decoded, in order
    h,          \* the frame of the tool handler invocation in progress; stops
                \* and pages keep, per fetch it made, why the fetch stopped
                \* and the pages it was served
    hres,       \* what the handler returned: the text content, whether a
                \* protocol-level error came with it, and the kind of result
    spawned,    \* the set of argument lists subprocesses were launched with
    agg         \* one buildAuctionSummaryResponse call: its inputs and result

rvars == <<chain, rc, outs, slept>>
fvars == <<f, requested, served>>
hvars == <<h, hres, spawned, agg>>
vars == <<chain, rc, outs, slept, f, requested, served, h, hres, spawned, agg>>

(***************************************************************************)
(* Program constants.                                                      *)
(***************************************************************************)
pageLimit == 50
maxPages == 10
maxRetries == 3
requestDelayMs == 500
commandTimeoutS == 30

(***************************************************************************)
(* Bounds of the model.                                                    *)
(***************************************************************************)
\* the longest stdout the external program writes in SpecRun
MaxOutLen == 2
\* the most auctions and the most bids handed to buildAuctionSummaryResponse
MaxAuctions == 3
MaxBids == 3
\* the longest list of raw records handed to the parsers
MaxRaw == 2

(***************************************************************************)
(* JSON values and Go strings.                                             *)
(***************************************************************************)
JNil == [t |-> "nil", s |-> <<>>, n |-> 0, a |-> <<>>, o |-> <<>>]
JStr(s) == [t |-> "str", s |-> s, n |-> 0, a |-> <<>>, o |-> <<>>]
JNum(n) == [t |-> "num", s |-> <<>>, n |-> n, a |-> <<>>, o |-> <<>>]
JArr(a) == [t |-> "arr", s |-> <<>>, n |-> 0, a |-> a, o |-> <<>>]
JObj(o) == [t |-> "obj", s |-> <<>>, n |-> 0, a |-> <<>>, o |-> o]

\* m[key] of a decoded map[string]interface{}: nil when the key is absent
Get(v, key) == IF v.t = "obj" /\ key \in DOMAIN v.o THEN v.o[key] ELSE JNil

\* one character of a Go string
Ch(c) == [s |-> c, d |-> JNil]
\* a JSON document inside a Go string
Doc(v) == [s |-> "", d |-> v]
\* a string literal that is never looked into, as one token
Lit(s) == <<Ch(s)>>
\* a string given character by character
Str(chars) == [j \in DOMAIN chars |-> Ch(chars[j])]

\* the text of a Go string
RECURSIVE Join(_)
Join(s) == IF s = <<>> THEN "" ELSE Head(s).s \o Join(Tail(s))

\* len(s): the characters of s
RECURSIVE GoLen(_)
GoLen(s) == IF s = <<>> THEN 0 ELSE Len(Head(s).s) + GoLen(Tail(s))

\* strings.HasPrefix
HasPrefix(s, prefix) ==
    Len(s) >= Len(prefix) /\ SubSeq(s, 1, Len(prefix)) = prefix

UpperChars == <<"A", "B", "C", "D", "E", "F", "G", "H", "I", "J", "K", "L", "M",
                "N", "O", "P", "Q", "R", "S", "T", "U", "V", "W", "X", "Y", "Z">>
LowerChars == <<"a", "b", "c", "d", "e", "f", "g", "h", "i", "j", "k", "l", "m",
                "n", "o", "p", "q", "r", "s", "t", "u", "v", "w", "x", "y", "z">>

\* strings.ToLower
ToLower(s) ==
    [j \in DOMAIN s |->
        IF \E k \in 1..26 : UpperChars[k] = s[j].s
        THEN Ch(LowerChars[CHOOSE k \in 1..26 : UpperChars[k] = s[j].s])
        ELSE s[j]]

IsSpace(tok) == tok.s \in {" ", "\n", "\t", "\r"}

RECURSIVE TrimLeft(_)
TrimLeft(s) ==
    IF s # <<>> /\ IsSpace(Head(s)) THEN TrimLeft(Tail(s)) ELSE s

RECURSIVE TrimRight(_)
TrimRight(s) ==
    IF s # <<>> /\ IsSpace(s[Len(s)]) THEN TrimRight(SubSeq(s, 1, Len(s) - 1))
    ELSE s

\* strings.TrimSpace
TrimSpace(s) == TrimRight(TrimLeft(s))

\* a Go error value
NoError == [nil |-> TRUE, msg |-> <<>>]
Error(msg) == [nil |-> FALSE, msg |-> msg]

\* every sequence over S of length at most n
SeqsUpTo(S, n) == UNION {[1..k -> S] : k \in 0..n}

(***************************************************************************)
(* The frames when nothing is in progress.                                 *)
(***************************************************************************)
IdleRc == [pc |-> "idle", caller |-> "none", i |-> 0, argv |-> <<>>,
           launched |-> 0, lastErr |-> NoError, out |-> <<>>, err |-> NoError]

NoChain == [auctions |-> 0, bids |-> 0, owners |-> 0, keys |-> 0,
            pageSize |-> 0, junk |-> FALSE]
IdleF == [pc |-> "idle", caller |-> "none", module |-> "", query |-> "",
          dataKey |-> "", offset |-> 0, allResults |-> <<>>, stop |-> "",
          errors |-> 0, sleptMs |-> 0]
NoArgs == [keyName |-> <<>>, address |-> <<>>, operation |-> <<>>,
           auctionId |-> <<>>, issue |-> <<>>, description |-> <<>>,
           status |-> <<>>, winner |-> <<>>, from |-> <<>>, bidder |-> <<>>,
           amount |-> <<>>, to |-> <<>>]
IdleH == [pc |-> "idle", tool |-> "", args |-> NoArgs, rawAuctions |-> <<>>,
          rawBids |-> <<>>, owners |-> <<>>, keys |-> <<>>, stops |-> <<>>,
          pages |-> <<>>, cancelled |-> FALSE, calls |-> 0]
NoResult == [text |-> <<>>, protocolError |-> FALSE, kind |-> ""]

DigitChars == <<"0", "1", "2", "3", "4", "5", "6", "7", "8", "9">>

\* strconv.Itoa
RECURSIVE Itoa(_)
Itoa(n) ==
    IF n < 0 THEN <<Ch("-")>> \o Itoa(-n)
    ELSE IF n < 10 THEN <<Ch(DigitChars[n + 1])>>
    ELSE Itoa(n \div 10) \o <<Ch(DigitChars[(n % 10) + 1])>>

IsDigit(tok) == \E k \in 1..10 : DigitChars[k] = tok.s

DigitVal(tok) == (CHOOSE k \in 1..10 : DigitChars[k] = tok.s) - 1

RECURSIVE DigitsVal(_)
DigitsVal(s) ==
    IF s = <<>> THEN 0
    ELSE 10 * DigitsVal(SubSeq(s, 1, Len(s) - 1)) + DigitVal(s[Len(s)])

\* strconv.Atoi: an optional sign, then one or more decimal digits
Atoi(s) ==
    LET signed == s # <<>> /\ s[1].s \in {"+", "-"}
        digits == IF signed THEN Tail(s) ELSE s
    IN IF digits # <<>> /\ \A j \in 1..Len(digits) : IsDigit(digits[j])
       THEN [ok |-> TRUE,
             val |-> IF signed /\ s[1].s = "-" THEN -DigitsVal(digits)
                     ELSE DigitsVal(digits)]
       ELSE [ok |-> FALSE, val |-> 0]

\* a plausible slip: the error of json.Unmarshal is dropped and the map is
\* left nil
UnmarshalMapUnchecked(text) == [ok |-> TRUE, v |-> JNil]

\* json.Unmarshal into a map[string]interface{}: the text must be one JSON
\* document, white space around it allowed, and that document an object or null
UnmarshalMap(text) ==
    LET body == TrimSpace(text) IN
    IF Len(body) = 1 /\ body[1].s = "" /\ body[1].d.t \in {"obj", "nil"}
    THEN [ok |-> TRUE, v |-> body[1].d]
    ELSE [ok |-> FALSE, v |-> JNil]

(***************************************************************************)
(* The record parsers (lines 1139-1174).                                   *)
(***************************************************************************)
\* strconv's shortest %e form of an integer of seven digits or more
FormatExp(n) ==
    LET all == Itoa(n)
        RECURSIVE Strip(_)
        Strip(d) == IF Len(d) > 1 /\ d[Len(d)].s = "0"
                    THEN Strip(SubSeq(d, 1, Len(d) - 1)) ELSE d
        digits == Strip(all)
        exp == Len(all) - 1
    IN <<digits[1]>>
       \o (IF Len(digits) > 1 THEN <<Ch(".")>> \o Tail(digits) ELSE <<>>)
       \o <<Ch("e"), Ch("+")>>
       \o (IF exp < 10 THEN <<Ch("0")>> ELSE <<>>) \o Itoa(exp)

\* fmt's %v of a float64 that holds an integer: %e from 1e+06 on
FormatFloat(n) ==
    IF n < 0 THEN <<Ch("-")>> \o (IF -n < 1000000 THEN Itoa(-n) ELSE FormatExp(-n))
    ELSE IF n < 1000000 THEN Itoa(n) ELSE FormatExp(n)

\* fmt.Sprintf("%v", x) of a decoded JSON value
Sprintv(v) ==
    CASE v.t = "nil" -> Lit("<nil>")
      [] v.t = "str" -> v.s
      [] v.t = "num" -> FormatFloat(v.n)
      [] v.t = "arr" -> Lit("[...]")
      [] OTHER -> Lit("map[...]")

\* id, _ := strconv.Atoi(idStr): zero when the text is no number
AtoiOrZero(s) == Atoi(s).val

ParseAuction(raw) ==
    [ID |-> AtoiOrZero(Sprintv(Get(raw, "id"))),
     Issue |-> Sprintv(Get(raw, "issue")),
     Description |-> Sprintv(Get(raw, "description")),
     Status |-> Sprintv(Get(raw, "status")),
     Winner |-> Sprintv(Get(raw, "winner")),
     Creator |-> Sprintv(Get(raw, "creator"))]

parseAuctions(rawData) == [j \in DOMAIN rawData |-> ParseAuction(rawData[j])]

ParseBid(raw) ==
    [AuctionID |-> AtoiOrZero(Sprintv(Get(raw, "auctionId"))),
     Amount |-> Sprintv(Get(raw, "amount")),
     Description |-> Sprintv(Get(raw, "description")),
     Creator |-> Sprintv(Get(raw, "creator")),
     Bidder |-> Sprintv(Get(raw, "bidder"))]

parseBids(rawData) == [j \in DOMAIN rawData |-> ParseBid(rawData[j])]

(***************************************************************************)
(* buildAuctionSummaryResponse (lines 969-1037).                           *)
(***************************************************************************)
BidDetail(bid) ==
    [Bidder |-> bid.Bidder, Amount |-> bid.Amount, Description |-> bid.Description]

\* a plausible slip: the first matching bid's amount is kept
CurrentAfterKeepFirst(current, seen, bid) ==
    IF seen = <<>> THEN bid.Amount ELSE current

\* currentBidAmount = bid.Amount, at every matching bid
CurrentAfter(current, seen, bid) == bid.Amount

\* the inner loop over the bids, from bid k on
RECURSIVE ScanBids(_, _, _, _)
ScanBids(auction, bids, k, acc) ==
    IF k > Len(bids) THEN acc
    ELSE ScanBids(auction, bids, k + 1,
            IF bids[k].AuctionID = auction.ID
            THEN [auctionBids |-> Append(acc.auctionBids, BidDetail(bids[k])),
                  currentBidAmount |->
                      CurrentAfter(acc.currentBidAmount, acc.auctionBids, bids[k])]
            ELSE acc)

AuctionDetail(auction, bids) ==
    LET scan == ScanBids(auction, bids, 1,
                         [auctionBids |-> <<>>, currentBidAmount |-> Lit("0token")])
    IN [AuctionID |-> auction.ID, Issue |-> auction.Issue,
        Creator |-> auction.Creator, Description |-> auction.Description,
        Status |-> auction.Status, Winner |-> auction.Winner,
        CurrentBidAmount |-> scan.currentBidAmount,
        Bids |-> scan.auctionBids]

\* address[7:12] when the address has 12 characters or more
extractNameFromAddress(address) ==
    IF GoLen(address) >= 12 THEN SubSeq(address, 8, 12) ELSE address

ParticipantDetail(owner) ==
    [Name |-> extractNameFromAddress(owner.Address),
     Address |-> owner.Address,
     Balance |-> owner.Amount \o <<Ch(" ")>> \o owner.Denom]

\* a plausible slip: the bids are counted, not the auctions that have bids
BidCountOfBids(details) ==
    LET RECURSIVE Count(_)
        Count(k) == IF k = 0 THEN 0 ELSE Count(k - 1) + Len(details[k].Bids)
    IN Count(Len(details))

\* bidCount: the auction details that have at least one bid
BidCount(details) ==
    LET RECURSIVE Count(_)
        Count(k) == IF k = 0 THEN 0
                    ELSE Count(k - 1) + (IF Len(details[k].Bids) > 0 THEN 1 ELSE 0)
    IN Count(Len(details))

SummaryText(auctions, bids, details, auctionType) ==
    IF auctionType = "open"
    THEN IF Len(auctions) = 0
         THEN Lit("No open auctions found.")
         ELSE Lit("There are ") \o Itoa(Len(auctions)) \o Lit(" open auctions (")
              \o Itoa(BidCount(details)) \o Lit(" with bids, ")
              \o Itoa(Len(auctions) - BidCount(details)) \o Lit(" without bids).")
    ELSE Lit("There are ") \o Itoa(Len(auctions)) \o Lit(" total auctions with ")
         \o Itoa(Len(bids)) \o Lit(" total bids.")

buildAuctionSummaryResponse(auctions, bids, owners, auctionType) ==
    LET details == [j \in DOMAIN auctions |-> AuctionDetail(auctions[j], bids)]
        participants == [j \in DOMAIN owners |-> ParticipantDetail(owners[j])]
    IN [Summary |-> SummaryText(auctions, bids, details, auctionType),
        Details |-> [Auctions |-> details, Participants |-> participants]]

NoResponse ==
    [Summary |-> <<>>, Details |-> [Auctions |-> <<>>, Participants |-> <<>>]]

IdleAgg == [pc |-> "idle", raw |-> <<>>, auctions |-> <<>>, bids |-> <<>>,
            owners |-> <<>>, auctionType |-> "", resp |-> NoResponse]

\* the call returns
AggBuild ==
    /\ agg.pc = "call"
    /\ agg' = [agg EXCEPT !.pc = "done",
                          !.resp = buildAuctionSummaryResponse(
                                      agg.auctions, agg.bids, agg.owners,
                                      agg.auctionType)]
    /\ UNCHANGED <<chain, rvars, fvars, h, hres, spawned>>

\* the typed records the calls are made with
SomeAuctions ==
    {[ID |-> id, Issue |-> Lit("issue"), Creator |-> Lit("creator"),
      Description |-> Lit("<nil>"), Status |-> Str(<<"o", "p", "e", "n">>),
      Winner |-> <<>>] : id \in {1, 2}}

SomeBids ==
    {[AuctionID |-> id, Amount |-> amount, Description |-> Lit("<nil>"),
      Creator |-> Lit("creator"), Bidder |-> Lit("bidder")] :
        id \in {1, 2, 3},
        amount \in {<<Ch("5"), Ch("token")>>, <<Ch("9"), Ch("token")>>}}

SomeOwners ==
    {<<>>,
     <<[Address |-> Str(<<"c", "o", "s", "m", "o", "s", "1", "a", "l", "i", "c",
                          "e", "q", "q">>),
        Amount |-> Lit("1000"), Denom |-> Lit("token")]>>}

\* one buildAuctionSummaryResponse call on any bounded input
InitAgg ==
    /\ chain = NoChain
    /\ rc = IdleRc
    /\ outs = <<>>
    /\ slept = <<>>
    /\ f = IdleF
    /\ requested = <<>>
    /\ served = <<>>
    /\ h = IdleH
    /\ hres = NoResult
    /\ spawned = {}
    /\ agg \in [pc : {"call"}, raw : {<<>>},
                 auctions : SeqsUpTo(SomeAuctions, MaxAuctions),
                 bids : SeqsUpTo(SomeBids, MaxBids), owners : SomeOwners,
                 auctionType : {"open", "all"}, resp : {NoResponse}]

NextAgg == AggBuild

SpecAgg == InitAgg /\ [][NextAgg]_vars

(***************************************************************************)
(* The parsers on their own: one parseAuctions and one parseBids call on   *)
(* any bounded list of raw records.                                        *)
(***************************************************************************)
\* what a raw record may hold as its identifier: a decimal string, a signed
\* one, one with a leading zero, text that is no number, the empty string, a
\* JSON number below and from 1e+06, a negative number, null, an array
RawIds ==
    {JStr(Str(<<"7">>)), JStr(Str(<<"1", "2">>)), JStr(Str(<<"0", "7">>)),
     JStr(Str(<<"+", "5">>)), JStr(Str(<<"-", "3">>)), JStr(Str(<<"7", "x">>)),
     JStr(<<>>), JNum(7), JNum(1000000), JNum(-3), JNil, JArr(<<>>)}

\* the raw records: with the identifier under both keys, or with neither key
RawRecords ==
    {JObj([id |-> v, auctionId |-> v, issue |-> JStr(Lit("fix"))]) : v \in RawIds}
    \cup {JObj([issue |-> JStr(Lit("fix"))])}

\* parseAuctions(rawData) and parseBids(rawData) return
ParseRecords ==
    /\ agg.pc = "parse"
    /\ agg' = [agg EXCEPT !.pc = "parsed",
                          !.auctions = parseAuctions(agg.raw),
                          !.bids = parseBids(agg.raw)]
    /\ UNCHANGED <<chain, rvars, fvars, h, hres, spawned>>

InitParse ==
    /\ chain = NoChain
    /\ rc = IdleRc
    /\ outs = <<>>
    /\ slept = <<>>
    /\ f = IdleF
    /\ requested = <<>>
    /\ served = <<>>
    /\ h = IdleH
    /\ hres = NoResult
    /\ spawned = {}
    /\ agg \in [pc : {"parse"}, raw : SeqsUpTo(RawRecords, MaxRaw),
                 auctions : {<<>>}, bids : {<<>>}, owners : {<<>>},
                 auctionType : {""}, resp : {NoResponse}]

NextParse == ParseRecords

SpecParse == InitParse /\ [][NextParse]_vars

(***************************************************************************)
(* runCommand (lines 201-237).                                             *)
(***************************************************************************)
\* what one attempt ends with: cmd.Run's error and the two buffers
Outcome(err, stdout, stderr) == [err |-> err, stdout |-> stdout, stderr |-> stderr]

\* fmt.Errorf of a mutant that reports the first failed attempt
FailureOfFirst(all, out) ==
    Error(Lit("command failed: ") \o all[1].err.msg \o Lit("\nSTDOUT: ")
          \o all[1].stdout \o Lit("\nSTDERR: ") \o all[1].stderr)

\* lastErr = fmt.Errorf("command failed: %v\nSTDOUT: %s\nSTDERR: %s", ...)
Failure(all, out) ==
    Error(Lit("command failed: ") \o out.err.msg \o Lit("\nSTDOUT: ")
          \o out.stdout \o Lit("\nSTDERR: ") \o out.stderr)

\* a plausible slip: the delay counts from zero
BackoffFromZero(i) == i

\* time.Duration(i+1) * time.Second, in seconds
Backoff(i) == i + 1

\* a plausible slip: the attempts are counted from 1
EnterRcAtOne(caller, argv) ==
    [pc |-> "start", caller |-> caller, i |-> 1, argv |-> argv,
     launched |-> 0, lastErr |-> NoError, out |-> <<>>, err |-> NoError]

\* the frame at the entry of runCommand(name, arg...)
EnterRc(caller, argv) ==
    [pc |-> "start", caller |-> caller, i |-> 0, argv |-> argv,
     launched |-> 0, lastErr |-> NoError, out |-> <<>>, err |-> NoError]

\* a plausible slip: the loop retries for as long as the command fails
MoreAttemptsAlways(i) == TRUE

\* a plausible slip: the loop runs while i <= maxRetries
MoreAttemptsOffByOne(i) == i <= maxRetries

\* the loop condition i < maxRetries
MoreAttempts(i) == i < maxRetries

\* exec.CommandContext and the start of cmd.Run: the subprocess is launched
RunLaunch ==
    /\ rc.pc = "start"
    /\ MoreAttempts(rc.i)
    /\ rc' = [rc EXCEPT !.pc = "running", !.launched = rc.launched + 1]
    /\ spawned' = spawned \cup {rc.argv}
    /\ UNCHANGED <<chain, outs, slept, fvars, h, hres, agg>>

\* cmd.Run returns with outcome out: success returns at once; failure records
\* lastErr and sleeps unless this was the last attempt, then i++
RunFinish(out) ==
    /\ rc.pc = "running"
    /\ outs' = Append(outs, out)
    /\ IF out.err.nil
       THEN rc' = [rc EXCEPT !.pc = "ret", !.out = TrimSpace(out.stdout),
                             !.err = NoError]
       ELSE LET lastErr == Failure(Append(outs, out), out) IN
            IF rc.i < maxRetries - 1
            THEN rc' = [rc EXCEPT !.pc = "sleep", !.lastErr = lastErr]
            ELSE rc' = [rc EXCEPT !.pc = "start", !.i = rc.i + 1,
                                  !.lastErr = lastErr]
    /\ UNCHANGED <<chain, slept, fvars, hvars>>

\* the loop is left: return "", lastErr
RunExhausted ==
    /\ rc.pc = "start"
    /\ ~MoreAttempts(rc.i)
    /\ rc' = [rc EXCEPT !.pc = "ret", !.out = <<>>, !.err = rc.lastErr]
    /\ UNCHANGED <<chain, outs, slept, fvars, hvars>>

\* time.Sleep(time.Duration(i+1) * time.Second), then i++
RunBackoff ==
    /\ rc.pc = "sleep"
    /\ slept' = Append(slept, Backoff(rc.i))
    /\ rc' = [rc EXCEPT !.pc = "start", !.i = rc.i + 1]
    /\ UNCHANGED <<chain, outs, fvars, hvars>>

(***************************************************************************)
(* The external program as runCommand alone sees it.                       *)
(***************************************************************************)
ExitErrors == {Error(Lit("exit status 1")), Error(Lit("signal: killed"))}

RunAlphabet == {Ch(" "), Ch("a")}

RunOutcomes ==
    {Outcome(e, so, se) :
        e \in {NoError} \cup ExitErrors,
        so \in SeqsUpTo(RunAlphabet, MaxOutLen),
        se \in {<<>>, <<Ch("w")>>}}


\* one runCommand call, of any command line
InitRun ==
    /\ chain = NoChain
    /\ rc = EnterRc("top", <<Lit("keys"), Lit("list")>>)
    /\ outs = <<>>
    /\ slept = <<>>
    /\ f = IdleF
    /\ requested = <<>>
    /\ served = <<>>
    /\ h = IdleH
    /\ hres = NoResult
    /\ spawned = {}
    /\ agg = IdleAgg

NextRun ==
    \/ RunLaunch
    \/ \E out \in RunOutcomes : RunFinish(out)
    \/ RunBackoff
    \/ RunExhausted

SpecRun == InitRun /\ [][NextRun]_vars

(***************************************************************************)
(* fetchPaginatedData (lines 1046-1087).                                   *)
(***************************************************************************)
\* the frame at the entry of fetchPaginatedData(module, query, dataKey)
EnterF(caller, module, query, dataKey) ==
    [pc |-> "loop", caller |-> caller, module |-> module, query |-> query,
     dataKey |-> dataKey, offset |-> 0, allResults |-> <<>>, stop |-> "",
     errors |-> 0, sleptMs |-> 0]

\* the argument list of one page request
PageArgs(module, query, offset) ==
    <<Lit("query"), Lit(module), Lit(query), Lit("--keyring-backend"),
      Lit("test"), Lit("--output"), Lit("json"), Lit("--page-offset"),
      Itoa(offset), Lit("--page-limit"), Itoa(pageLimit)>>

\* a plausible slip: the ceiling is tested with <=
MorePagesOffByOne(offset) == offset \div pageLimit <= maxPages

\* the loop condition offset/pageLimit < maxPages
MorePages(offset) == offset \div pageLimit < maxPages

\* a plausible slip: the offset moves on by one record, not by one page
NextOffsetByOne(offset) == offset + 1

\* offset += pageLimit
NextOffset(offset) == offset + pageLimit

\* a plausible slip: every element is appended, map or not
KeepAll(results) == results

\* the elements of a page that are maps, in order; the others are skipped
KeepMaps(results) == SelectSeq(results, LAMBDA e : e.t = "obj")

\* the loop is entered: the page at offset is asked of runCommand
FetchRequest ==
    /\ f.pc = "loop"
    /\ MorePages(f.offset)
    /\ rc' = EnterRc("fetch", PageArgs(f.module, f.query, f.offset))
    /\ outs' = <<>>
    /\ slept' = <<>>
    /\ requested' = Append(requested, f.offset)
    /\ f' = [f EXCEPT !.pc = "wait"]
    /\ UNCHANGED <<chain, served, hvars>>

\* the loop condition fails: the page ceiling is reached
FetchCeiling ==
    /\ f.pc = "loop"
    /\ ~MorePages(f.offset)
    /\ f' = [f EXCEPT !.pc = "ret", !.stop = "ceiling"]
    /\ UNCHANGED <<chain, rvars, requested, served, hvars>>

\* a plausible slip: a failed page is skipped and the loop goes on
AfterErrorGoOn(fr) == [fr EXCEPT !.pc = "sleep", !.offset = NextOffset(fr.offset)]

\* runCommand reported an error: log and break
AfterError(fr) == [fr EXCEPT !.pc = "ret", !.stop = "error"]

\* runCommand has returned: break on an error, on text that does not decode,
\* on a key that is absent, no array or empty; else append the page's maps,
\* move the offset on and sleep
FetchPage ==
    /\ f.pc = "wait"
    /\ rc.pc = "ret"
    /\ rc.caller = "fetch"
    /\ rc' = IdleRc
    /\ LET decoded == UnmarshalMap(rc.out)
           results == Get(decoded.v, f.dataKey)
       IN IF ~rc.err.nil
          THEN f' = AfterError([f EXCEPT !.errors = f.errors + 1]) /\ served' = served
          ELSE IF ~decoded.ok
          THEN f' = [f EXCEPT !.pc = "ret", !.stop = "parse"] /\ served' = served
          ELSE IF results.t # "arr" \/ Len(results.a) = 0
          THEN f' = [f EXCEPT !.pc = "ret", !.stop = "empty"] /\ served' = served
          ELSE /\ f' = [f EXCEPT !.pc = "sleep",
                                 !.allResults = f.allResults \o KeepMaps(results.a),
                                 !.offset = NextOffset(f.offset)]
               /\ served' = Append(served, results.a)
    /\ UNCHANGED <<chain, outs, slept, requested, hvars>>

\* time.Sleep(requestDelay), then the loop condition again
FetchDelay ==
    /\ f.pc = "sleep"
    /\ f' = [f EXCEPT !.pc = "loop", !.sleptMs = f.sleptMs + requestDelayMs]
    /\ UNCHANGED <<chain, rvars, requested, served, hvars>>

(***************************************************************************)
(* The external program: swechaind answering from the ledger.              *)
(***************************************************************************)
\* the k-th auction of the ledger, as swechaind prints it
AuctionAt(k) ==
    JObj([id |-> JStr(Itoa(k)),
          issue |-> JStr(Lit("issue-") \o Itoa(k)),
          status |-> JStr(CASE k % 3 = 1 -> Str(<<"o", "p", "e", "n">>)
                            [] k % 3 = 2 -> Str(<<" ", "O", "p", "e", "n", "\n">>)
                            [] OTHER -> Str(<<"c", "l", "o", "s", "e", "d">>))])

\* the k-th bid of the ledger
BidAt(k) ==
    JObj([auctionId |-> JStr(Itoa((k % 3) + 1)),
          amount |-> JStr(Itoa(k) \o Lit("token")),
          bidder |-> JStr(Lit("bidder-") \o Itoa(k))])

\* the k-th entry of the list a query walks; a ledger with junk holds an
\* entry that is no JSON object at every seventh place
EntryAt(query, k) ==
    IF chain.junk /\ k % 7 = 0 THEN JNum(k)
    ELSE IF query = "list-auction" THEN AuctionAt(k) ELSE BidAt(k)

EntryCount(query) == IF query = "list-auction" THEN chain.auctions ELSE chain.bids

DataKeyOf(query) == IF query = "list-auction" THEN "Auction" ELSE "Bid"

\* the entries swechaind returns for a page at offset: at most its own page
\* size, which is the --page-limit asked for unless it ignores the flag
PageAt(query, offset) ==
    LET left == EntryCount(query) - offset
        cnt == IF left <= 0 THEN 0
               ELSE IF left < chain.pageSize THEN left ELSE chain.pageSize
    IN [j \in 1..cnt |-> EntryAt(query, offset + j)]

\* a failed attempt: a non-zero exit or the 30 s timeout
Failed == Outcome(Error(Lit("exit status 1")), <<>>, Lit("rpc error"))

\* an attempt killed at the 30 s timeout, with what it had printed by then
TimedOut == Outcome(Error(Lit("signal: killed")), Lit("{"), <<>>)

\* a successful attempt that prints the JSON document v and a newline
Good(v) == Outcome(NoError, <<Doc(v), Ch("\n")>>, <<>>)
\* a successful attempt that prints text that is no JSON
Garbage == Outcome(NoError, Lit("panic"), <<>>)

\* what swechaind can answer to a page request: the page, a document without
\* the key, the key with a value that is no array, a document that is no
\* object, text that is no JSON; or fail
PageOutcomes(argv) ==
    LET query == Join(argv[3])
        offset == Atoi(argv[9]).val
    IN {Failed,
        Good(JObj(DataKeyOf(query) :> JArr(PageAt(query, offset)))),
        Good(JObj([pagination |-> JNil])),
        Good(JObj(DataKeyOf(query) :> JStr(Lit("none")))),
        Good(JArr(<<>>)),
        Garbage}

\* a valid address: cosmos1 and 32 more characters
Cosmos1 == Str(<<"c", "o", "s", "m", "o", "s", "1">>)
Addr == Cosmos1 \o [j \in 1..32 |-> Ch("q")]
\* an address that is too short
ShortAddr == Cosmos1 \o Str(<<"x", "y">>)

OwnerAt(k) ==
    IF chain.junk /\ k % 2 = 0
    THEN JObj([address |-> JStr(Addr)])
    ELSE JObj([address |-> JStr(Addr),
               balance |-> JObj([amount |-> JStr(Itoa(1000 * k)),
                                 denom |-> JStr(Lit("token"))])])

KeyAt(k) == JObj([name |-> JStr(Lit("key-") \o Itoa(k)), address |-> JStr(Addr)])

\* what swechaind can answer to argv; it fails, or prints no JSON, at will
Answers(argv) ==
    LET a1 == Join(argv[1])
        a2 == Join(argv[2])
        a3 == Join(argv[3])
    IN CASE a1 = "query" /\ a2 = "issuemarket" -> PageOutcomes(argv)
         [] a1 = "query" /\ a3 = "denom-owners" ->
              {Failed, Garbage, Good(JObj([pagination |-> JNil])),
               Good(JObj([denom_owners |-> JArr([k \in 1..chain.owners |-> OwnerAt(k)])]))}
         [] a1 = "query" /\ a3 = "balances" ->
              {Failed, Garbage, Good(JObj([pagination |-> JNil])),
               Good(JObj([balances |-> JArr(<<JObj([denom |-> JStr(Lit("token")),
                                                    amount |-> JStr(Lit("1000"))])>>)]))}
         [] a1 = "keys" /\ a2 = "list" ->
              {Failed, Garbage, Good(JObj([pagination |-> JNil])),
               Good(JArr([k \in 1..chain.keys |-> KeyAt(k)]))}
         [] a1 = "keys" /\ a2 = "show" ->
              {Failed, Garbage, Good(JObj([name |-> JStr(argv[3])])),
               Good(JObj([name |-> JStr(argv[3]), address |-> JStr(ShortAddr)])),
               Good(JObj([name |-> JStr(argv[3]), address |-> JStr(Addr)]))}
         [] OTHER ->
              {Failed, TimedOut,
               Good(JObj([txhash |-> JStr(Lit("9F3A")), code |-> JNum(0)]))}

\* how far the ledger may exceed what one fetch can reach
MaxExtra == 60

ChainSizes ==
    {0, 2, pageLimit, 3 * pageLimit, maxPages * pageLimit,
     maxPages * pageLimit + MaxExtra}

\* one fetchPaginatedData call over a ledger
InitFetch ==
    /\ chain \in [auctions : ChainSizes, bids : {0}, owners : {0}, keys : {0},
                   pageSize : {pageLimit, pageLimit + 1}, junk : BOOLEAN]
    /\ rc = IdleRc
    /\ outs = <<>>
    /\ slept = <<>>
    /\ f = EnterF("top", "issuemarket", "list-auction", "Auction")
    /\ requested = <<>>
    /\ served = <<>>
    /\ h = IdleH
    /\ hres = NoResult
    /\ spawned = {}
    /\ agg = IdleAgg

NextFetch ==
    \/ FetchRequest
    \/ FetchCeiling
    \/ FetchPage
    \/ FetchDelay
    \/ RunLaunch
    \/ rc.pc = "running" /\ \E out \in PageOutcomes(rc.argv) : RunFinish(out)
    \/ RunBackoff
    \/ RunExhausted

SpecFetch == InitFetch /\ [][NextFetch]_vars

(***************************************************************************)
(* The helpers of the handlers (lines 239-243, 895-967, 1089-1137).        *)
(***************************************************************************)
isValidCosmosAddress(addr) ==
    LET a == TrimSpace(addr)
    IN HasPrefix(a, Cosmos1) /\ GoLen(a) >= 39 /\ GoLen(a) <= 45

\* a plausible slip: an execution failure is returned as the handler's error
ResultAsError(text, kind) ==
    [text |-> <<>>, protocolError |-> kind = "execution", kind |-> kind]

\* a handler's result: text content and a nil error.  kind tells a validation
\* error, an execution error, a decoding error and a success apart
Result(text, kind) == [text |-> text, protocolError |-> FALSE, kind |-> kind]

\* json.MarshalIndent: the text is one JSON document
Marshal(v) == <<Doc(v)>>

\* a slice in JSON: null when the slice is nil
SliceJson(items) == IF items = <<>> THEN JNil ELSE JArr(items)

FixedFlags ==
    <<Lit("--keyring-backend"), Lit("test"), Lit("--output"), Lit("json")>>

TxFlags(from) ==
    <<Lit("--from"), from, Lit("--keyring-backend"), Lit("test"),
      Lit("--chain-id"), Lit("swechain"), Lit("--fees"), Lit("200token"),
      Lit("--yes"), Lit("--output"), Lit("json")>>

\* fetchDenomOwners, from the return of its runCommand call
DenomOwnersOf(out, err) ==
    LET decoded == UnmarshalMap(out)
        raw == Get(decoded.v, "denom_owners")
        usable == SelectSeq(raw.a, LAMBDA e : e.t = "obj" /\ Get(e, "balance").t = "obj")
    IN IF ~err.nil \/ ~decoded.ok \/ raw.t # "arr" THEN <<>>
       ELSE [j \in DOMAIN usable |->
               [Address |-> Sprintv(Get(usable[j], "address")),
                Amount |-> Sprintv(Get(Get(usable[j], "balance"), "amount")),
                Denom |-> Sprintv(Get(Get(usable[j], "balance"), "denom"))]]

\* json.Unmarshal into a string field: a JSON string, or null or an absent key
StringField(v) == v.t \in {"str", "nil"}

\* getKeys, from the return of its runCommand call: json.Unmarshal into []Key
KeysOf(out, err) ==
    LET body == TrimSpace(out)
        isDoc == Len(body) = 1 /\ body[1].s = ""
        doc == IF isDoc THEN body[1].d ELSE JNil
        fits == /\ isDoc
                /\ doc.t \in {"arr", "nil"}
                /\ \A j \in 1..Len(doc.a) :
                      \/ doc.a[j].t = "nil"
                      \/ /\ doc.a[j].t = "obj"
                         /\ StringField(Get(doc.a[j], "name"))
                         /\ StringField(Get(doc.a[j], "address"))
    IN IF ~err.nil \/ ~fits THEN <<>>
       ELSE [j \in DOMAIN doc.a |->
               [Name |-> Get(doc.a[j], "name").s,
                Address |-> Get(doc.a[j], "address").s]]

\* getAddressForKey, from the return of its runCommand call
AddressOf(out, err) ==
    LET decoded == UnmarshalMap(out)
        address == Get(decoded.v, "address")
    IN IF ~err.nil
       THEN [address |-> <<>>, kind |-> "execution",
             err |-> Error(Lit("failed to get key info: ") \o err.msg)]
       ELSE IF ~decoded.ok
       THEN [address |-> <<>>, kind |-> "decoding",
             err |-> Error(Lit("failed to parse key data: invalid JSON"))]
       ELSE IF address.t # "str"
       THEN [address |-> <<>>, kind |-> "decoding",
             err |-> Error(Lit("address not found in key data"))]
       ELSE IF ~isValidCosmosAddress(address.s)
       THEN [address |-> <<>>, kind |-> "decoding",
             err |-> Error(Lit("invalid cosmos address format: ") \o address.s)]
       ELSE [address |-> address.s, kind |-> "ok", err |-> NoError]

\* getBalanceForAddress, from the return of its runCommand call
BalancesOf(out, err) ==
    LET decoded == UnmarshalMap(out)
        raw == Get(decoded.v, "balances")
        maps == SelectSeq(raw.a, LAMBDA e : e.t = "obj")
    IN IF ~err.nil
       THEN [balances |-> <<>>, kind |-> "execution", empty |-> FALSE,
             err |-> Error(Lit("failed to query balance: ") \o err.msg)]
       ELSE IF ~decoded.ok
       THEN [balances |-> <<>>, kind |-> "decoding", empty |-> FALSE,
             err |-> Error(Lit("failed to parse balance data: invalid JSON"))]
       ELSE IF raw.t # "arr"
       THEN [balances |-> <<>>, kind |-> "ok", err |-> NoError, empty |-> TRUE]
       ELSE [balances |-> [j \in DOMAIN maps |->
                             [Amount |-> Sprintv(Get(maps[j], "amount")),
                              Denom |-> Sprintv(Get(maps[j], "denom"))]],
             kind |-> "ok", err |-> NoError, empty |-> FALSE]

IsOpen(auction) == Join(ToLower(TrimSpace(auction.Status))) = "open"

(***************************************************************************)
(* The JSON texts of the responses.                                        *)
(***************************************************************************)
BidDetailJson(b) ==
    JObj([bidder |-> JStr(b.Bidder), amount |-> JStr(b.Amount),
          description |-> JStr(b.Description)])

AuctionDetailJson(d) ==
    JObj([auctionId |-> JNum(d.AuctionID), issue |-> JStr(d.Issue),
          creator |-> JStr(d.Creator), description |-> JStr(d.Description),
          status |-> JStr(d.Status), winner |-> JStr(d.Winner),
          currentBidAmount |-> JStr(d.CurrentBidAmount),
          bids |-> SliceJson([j \in DOMAIN d.Bids |-> BidDetailJson(d.Bids[j])])])

ParticipantJson(q) ==
    JObj([name |-> JStr(q.Name), address |-> JStr(q.Address),
          balance |-> JStr(q.Balance)])

AuctionSummaryJson(r) ==
    JObj([summary |-> JStr(r.Summary),
          details |-> JObj([
              auctions |-> SliceJson([j \in DOMAIN r.Details.Auctions |->
                              AuctionDetailJson(r.Details.Auctions[j])]),
              participants |-> SliceJson([j \in DOMAIN r.Details.Participants |->
                              ParticipantJson(r.Details.Participants[j])])])])

BidJson(b) ==
    JObj([auctionId |-> JStr(Itoa(b.AuctionID)), amount |-> JStr(b.Amount),
          description |-> JStr(b.Description), creator |-> JStr(b.Creator),
          bidder |-> JStr(b.Bidder)])

KeyJson(k) == JObj([name |-> JStr(k.Name), address |-> JStr(k.Address)])

BalanceJson(b) == JObj([denom |-> JStr(b.Denom), amount |-> JStr(b.Amount)])

(***************************************************************************)
(* The tool handlers (lines 325-807).                                      *)
(***************************************************************************)
\* the handler returns result
Return(result) ==
    /\ h' = [h EXCEPT !.pc = "done"]
    /\ hres' = result

\* the handler of tool is entered with args and calls runCommand
CallRun(tool, args, stage, argv) ==
    /\ h' = [h EXCEPT !.pc = stage, !.tool = tool, !.args = args,
                      !.calls = h.calls + 1]
    /\ rc' = EnterRc("handler", argv)
    /\ outs' = <<>>
    /\ slept' = <<>>
    /\ UNCHANGED <<chain, fvars, hres, spawned, agg>>

\* the handler of tool is entered with args and returns without a call
Reject(tool, args, text) ==
    /\ h' = [h EXCEPT !.pc = "done", !.tool = tool, !.args = args]
    /\ hres' = Result(text, "validation")
    /\ UNCHANGED <<chain, rvars, fvars, spawned, agg>>

\* getAddressForKeyHandler, to its runCommand call
InvokeGetAddressForKey(args) ==
    /\ h.pc = "idle"
    /\ LET keyName == TrimSpace(args.keyName) IN
       IF keyName = <<>>
       THEN Reject("get-address-for-key", args,
                   Lit("Error: keyName parameter is required and cannot be empty."))
       ELSE CallRun("get-address-for-key", args, "keyshow",
                    <<Lit("keys"), Lit("show"), keyName>> \o FixedFlags)

\* getAddressForKeyHandler, from the return of getAddressForKey
GetAddressForKeyReturn ==
    /\ h.pc = "keyshow"
    /\ rc.pc = "ret"
    /\ rc' = IdleRc
    /\ LET keyName == TrimSpace(h.args.keyName)
           got == AddressOf(rc.out, rc.err)
       IN IF ~got.err.nil
          THEN Return(Result(Lit("Error getting address for key ") \o keyName
                             \o Lit(": ") \o got.err.msg, got.kind))
          ELSE Return(Result(Marshal(JObj([
                   summary |-> JStr(Lit("Address for key '") \o keyName
                                    \o Lit("': ") \o got.address),
                   details |-> JObj([keyName |-> JStr(keyName),
                                     address |-> JStr(got.address)])])), "ok"))
    /\ UNCHANGED <<chain, outs, slept, fvars, spawned, agg>>

\* getBalanceHandler, to its runCommand call
InvokeGetBalance(args) ==
    /\ h.pc = "idle"
    /\ LET address == TrimSpace(args.address) IN
       IF address = <<>>
       THEN Reject("get-balance", args,
                   Lit("Error: address parameter is required and cannot be empty."))
       ELSE IF ~isValidCosmosAddress(address)
       THEN Reject("get-balance", args,
                   Lit("Error: address must be a valid cosmos address (cosmos1...)."))
       ELSE CallRun("get-balance", args, "balances",
                    <<Lit("query"), Lit("bank"), Lit("balances"), address>>
                    \o FixedFlags)

\* getBalanceHandler, from the return of getBalanceForAddress
GetBalanceReturn ==
    /\ h.pc = "balances"
    /\ rc.pc = "ret"
    /\ rc' = IdleRc
    /\ LET address == TrimSpace(h.args.address)
           got == BalancesOf(rc.out, rc.err)
           total == IF Len(got.balances) > 0 THEN got.balances[1].Amount ELSE Lit("0")
           denom == IF Len(got.balances) > 0 THEN got.balances[1].Denom ELSE Lit("token")
       IN IF ~got.err.nil
          THEN Return(Result(Lit("Error getting balance for address ") \o address
                             \o Lit(": ") \o got.err.msg, got.kind))
          ELSE Return(Result(Marshal(JObj([
                   summary |-> JStr(Lit("Address ") \o address \o Lit(" has ")
                                    \o total \o <<Ch(" ")>> \o denom),
                   details |-> JObj([
                       address |-> JStr(address),
                       balances |-> IF got.empty THEN JArr(<<>>)
                                    ELSE SliceJson([j \in DOMAIN got.balances |->
                                            BalanceJson(got.balances[j])])])])), "ok"))
    /\ UNCHANGED <<chain, outs, slept, fvars, spawned, agg>>

AuctionTools == {"query-open-auctions", "query-all-auctions", "get-blockchain-status"}

\* queryOpenAuctionsHandler, queryAllAuctionsHandler and
\* getBlockchainStatusHandler, to their first fetchPaginatedData call
InvokeAuctionQuery(tool, args) ==
    /\ h.pc = "idle"
    /\ h' = [h EXCEPT !.pc = "auctions", !.tool = tool, !.args = args]
    /\ f' = EnterF("handler", "issuemarket", "list-auction", "Auction")
    /\ requested' = <<>>
    /\ served' = <<>>
    /\ UNCHANGED <<chain, rvars, hres, spawned, agg>>

\* the auctions are fetched: the bids are fetched next
GotAuctions ==
    /\ h.pc = "auctions"
    /\ f.pc = "ret"
    /\ h' = [h EXCEPT !.pc = "bids", !.rawAuctions = f.allResults,
                      !.stops = Append(h.stops, f.stop),
                      !.pages = Append(h.pages, served)]
    /\ f' = EnterF("handler", "issuemarket", "list-bid", "Bid")
    /\ requested' = <<>>
    /\ served' = <<>>
    /\ UNCHANGED <<chain, rvars, hres, spawned, agg>>

\* the bids are fetched: fetchDenomOwners is called next
GotBids ==
    /\ h.pc = "bids"
    /\ h.tool \in AuctionTools
    /\ f.pc = "ret"
    /\ h' = [h EXCEPT !.pc = "owners", !.rawBids = f.allResults,
                      !.stops = Append(h.stops, f.stop),
                      !.pages = Append(h.pages, served),
                      !.calls = h.calls + 1]
    /\ f' = IdleF
    /\ rc' = EnterRc("handler", <<Lit("query"), Lit("bank"), Lit("denom-owners"),
                                  Lit("token")>> \o FixedFlags)
    /\ outs' = <<>>
    /\ slept' = <<>>
    /\ UNCHANGED <<chain, requested, served, hres, spawned, agg>>

\* queryOpenAuctionsHandler and queryAllAuctionsHandler, from the return of
\* fetchDenomOwners: parse, filter, build, marshal
AuctionQueryReturn ==
    /\ h.pc = "owners"
    /\ h.tool \in {"query-open-auctions", "query-all-auctions"}
    /\ rc.pc = "ret"
    /\ rc' = IdleRc
    /\ LET owners == DenomOwnersOf(rc.out, rc.err)
           auctions == parseAuctions(h.rawAuctions)
           bids == parseBids(h.rawBids)
           response ==
               IF h.tool = "query-open-auctions"
               THEN buildAuctionSummaryResponse(SelectSeq(auctions, IsOpen), bids,
                                                owners, "open")
               ELSE buildAuctionSummaryResponse(auctions, bids, owners, "all")
       IN /\ h' = [h EXCEPT !.pc = "done", !.owners = owners]
          /\ hres' = Result(Marshal(AuctionSummaryJson(response)), "ok")
    /\ UNCHANGED <<chain, outs, slept, fvars, spawned, agg>>

\* getBlockchainStatusHandler, from the return of fetchDenomOwners: getKeys next
StatusGotOwners ==
    /\ h.pc = "owners"
    /\ h.tool = "get-blockchain-status"
    /\ rc.pc = "ret"
    /\ h' = [h EXCEPT !.pc = "keys", !.owners = DenomOwnersOf(rc.out, rc.err),
                      !.calls = h.calls + 1]
    /\ rc' = EnterRc("handler", <<Lit("keys"), Lit("list")>> \o FixedFlags)
    /\ outs' = <<>>
    /\ slept' = <<>>
    /\ UNCHANGED <<chain, fvars, hres, spawned, agg>>

\* the number of auctions whose status is open
OpenCount(auctions) == Len(SelectSeq(auctions, IsOpen))

\* getBlockchainStatusHandler, from the return of getKeys
StatusReturn ==
    /\ h.pc = "keys"
    /\ h.tool = "get-blockchain-status"
    /\ rc.pc = "ret"
    /\ rc' = IdleRc
    /\ LET keys == KeysOf(rc.out, rc.err)
           auctions == parseAuctions(h.rawAuctions)
           bids == parseBids(h.rawBids)
       IN /\ h' = [h EXCEPT !.pc = "done", !.keys = keys]
          /\ hres' = Result(Marshal(JObj([
                 summary |-> JStr(Lit("Blockchain has ") \o Itoa(Len(auctions))
                     \o Lit(" total auctions (") \o Itoa(OpenCount(auctions))
                     \o Lit(" open), ") \o Itoa(Len(bids)) \o Lit(" bids, ")
                     \o Itoa(Len(keys)) \o Lit(" keys, and ")
                     \o Itoa(Len(h.owners)) \o Lit(" token holders")),
                 details |-> JObj([totalAuctions |-> JNum(Len(auctions)),
                                   openAuctions |-> JNum(OpenCount(auctions)),
                                   totalBids |-> JNum(Len(bids)),
                                   totalKeys |-> JNum(Len(keys)),
                                   tokenHolders |-> JNum(Len(h.owners))])])), "ok")
    /\ UNCHANGED <<chain, outs, slept, fvars, spawned, agg>>

\* queryBidsForAuctionHandler, to its fetchPaginatedData call
InvokeQueryBids(args) ==
    /\ h.pc = "idle"
    /\ IF TrimSpace(args.auctionId) = <<>>
       THEN Reject("query-bids-for-auction", args,
                   Lit("Error: auctionId parameter is required. Use specific auction ID or 'all' for all bids."))
       ELSE /\ h' = [h EXCEPT !.pc = "bids", !.tool = "query-bids-for-auction",
                              !.args = args]
            /\ f' = EnterF("handler", "issuemarket", "list-bid", "Bid")
            /\ requested' = <<>>
            /\ served' = <<>>
            /\ UNCHANGED <<chain, rvars, hres, spawned, agg>>

\* queryBidsForAuctionHandler, from the return of fetchPaginatedData: the
\* auctionId is converted only here
QueryBidsReturn ==
    /\ h.pc = "bids"
    /\ h.tool = "query-bids-for-auction"
    /\ f.pc = "ret"
    /\ f' = IdleF
    /\ LET auctionId == TrimSpace(h.args.auctionId)
           all == Join(ToLower(auctionId)) = "all"
           parsed == parseBids(f.allResults)
           wanted == Atoi(auctionId)
           bids == IF all THEN parsed
                   ELSE SelectSeq(parsed, LAMBDA b : b.AuctionID = wanted.val)
           summary == IF all
                      THEN Lit("Found ") \o Itoa(Len(bids))
                           \o Lit(" total bids across all auctions")
                      ELSE Lit("Found ") \o Itoa(Len(bids))
                           \o Lit(" bids for auction ") \o auctionId
       IN /\ h' = [h EXCEPT !.pc = "done", !.rawBids = f.allResults,
                            !.stops = Append(h.stops, f.stop),
                            !.pages = Append(h.pages, served)]
          /\ IF ~all /\ ~wanted.ok
             THEN hres' = Result(Lit("Error: invalid auctionId '") \o auctionId
                                 \o Lit("'. Must be a number or 'all'."), "validation")
             ELSE hres' = Result(Marshal(JObj([
                      summary |-> JStr(summary),
                      details |-> JObj([bids |-> SliceJson(
                          [j \in DOMAIN bids |-> BidJson(bids[j])])])])), "ok")
    /\ UNCHANGED <<chain, rvars, requested, served, spawned, agg>>

\* getKeysHandler, to its runCommand call
InvokeGetKeys(args) ==
    /\ h.pc = "idle"
    /\ CallRun("get-keys", args, "keys", <<Lit("keys"), Lit("list")>> \o FixedFlags)

\* getKeysHandler, from the return of getKeys
GetKeysReturn ==
    /\ h.pc = "keys"
    /\ h.tool = "get-keys"
    /\ rc.pc = "ret"
    /\ rc' = IdleRc
    /\ LET keys == KeysOf(rc.out, rc.err)
       IN /\ h' = [h EXCEPT !.pc = "done", !.keys = keys]
          /\ hres' = Result(Marshal(JObj([
                 summary |-> JStr(Lit("Found ") \o Itoa(Len(keys))
                                  \o Lit(" keys in the keyring")),
                 details |-> JObj([keys |-> JArr([j \in DOMAIN keys |->
                                                    KeyJson(keys[j])])])])), "ok")
    /\ UNCHANGED <<chain, outs, slept, fvars, spawned, agg>>

\* openAuctionHandler, to its runCommand call
InvokeOpenAuction(args) ==
    /\ h.pc = "idle"
    /\ LET issue == TrimSpace(args.issue)
           description == TrimSpace(args.description)
           from == TrimSpace(args.from)
           status == IF TrimSpace(args.status) = <<>> THEN Lit("open")
                     ELSE TrimSpace(args.status)
           winner == TrimSpace(args.winner)
       IN IF issue = <<>>
          THEN Reject("open-auction", args,
                      Lit("Error: 'issue' parameter is required and cannot be empty."))
          ELSE IF description = <<>>
          THEN Reject("open-auction", args,
                      Lit("Error: 'description' parameter is required and cannot be empty."))
          ELSE IF from = <<>>
          THEN Reject("open-auction", args,
                      Lit("Error: 'from' parameter is required and cannot be empty."))
          ELSE IF ~isValidCosmosAddress(from)
          THEN Reject("open-auction", args,
                      Lit("Error: 'from' must be a valid cosmos address (cosmos1...)."))
          ELSE CallRun("open-auction", args, "tx",
                       <<Lit("tx"), Lit("issuemarket"), Lit("create-auction"),
                         issue, description, status, winner>> \o TxFlags(from))

\* createBidHandler, to its runCommand call
InvokeCreateBid(args) ==
    /\ h.pc = "idle"
    /\ LET auctionId == TrimSpace(args.auctionId)
           bidder == TrimSpace(args.bidder)
           from == TrimSpace(args.from)
           amount == IF TrimSpace(args.amount) = <<>> THEN Lit("100token")
                     ELSE TrimSpace(args.amount)
           description == IF TrimSpace(args.description) = <<>>
                          THEN Lit("Bid for auction ") \o auctionId
                          ELSE TrimSpace(args.description)
       IN IF auctionId = <<>>
          THEN Reject("create-bid", args, Lit("Error: 'auctionId' parameter is required."))
          ELSE IF bidder = <<>>
          THEN Reject("create-bid", args, Lit("Error: 'bidder' parameter is required."))
          ELSE IF from = <<>>
          THEN Reject("create-bid", args, Lit("Error: 'from' parameter is required."))
          ELSE IF ~isValidCosmosAddress(bidder)
          THEN Reject("create-bid", args,
                      Lit("Error: 'bidder' must be a valid cosmos address (cosmos1...)."))
          ELSE IF ~isValidCosmosAddress(from)
          THEN Reject("create-bid", args,
                      Lit("Error: 'from' must be a valid cosmos address (cosmos1...)."))
          ELSE IF ~Atoi(auctionId).ok
          THEN Reject("create-bid", args, Lit("Error: 'auctionId' must be a valid number."))
          ELSE CallRun("create-bid", args, "tx",
                       <<Lit("tx"), Lit("issuemarket"), Lit("create-bid"),
                         auctionId, bidder, amount, description>> \o TxFlags(from))

\* payHandler, to its runCommand call
InvokePay(args) ==
    /\ h.pc = "idle"
    /\ LET from == TrimSpace(args.from)
           to == TrimSpace(args.to)
           amount == TrimSpace(args.amount)
       IN IF from = <<>> \/ to = <<>> \/ amount = <<>>
          THEN Reject("pay", args,
                      Lit("Error: 'from', 'to', and 'amount' parameters are all required."))
          ELSE IF ~isValidCosmosAddress(from)
          THEN Reject("pay", args, Lit("Error: 'from' must be a valid cosmos address."))
          ELSE IF ~isValidCosmosAddress(to)
          THEN Reject("pay", args, Lit("Error: 'to' must be a valid cosmos address."))
          ELSE CallRun("pay", args, "tx",
                       <<Lit("tx"), Lit("bank"), Lit("send"), from, to, amount>>
                       \o TxFlags(from))

\* closeAuctionHandler, to its runCommand call
InvokeCloseAuction(args) ==
    /\ h.pc = "idle"
    /\ LET auctionId == TrimSpace(args.auctionId)
           status == TrimSpace(args.status)
           from == TrimSpace(args.from)
       IN IF auctionId = <<>> \/ status = <<>> \/ from = <<>>
          THEN Reject("close-auction", args,
                      Lit("Error: 'auctionId', 'status', and 'from' parameters are required."))
          ELSE IF ~isValidCosmosAddress(from)
          THEN Reject("close-auction", args,
                      Lit("Error: 'from' must be a valid cosmos address."))
          ELSE IF ~Atoi(auctionId).ok
          THEN Reject("close-auction", args,
                      Lit("Error: 'auctionId' must be a valid number."))
          ELSE CallRun("close-auction", args, "tx",
                       <<Lit("tx"), Lit("issuemarket"), Lit("update-auction"),
                         auctionId, TrimSpace(args.issue), TrimSpace(args.description),
                         status, TrimSpace(args.winner)>> \o TxFlags(from))

\* the words a state-changing handler puts before a failure
FailureWords(tool) ==
    CASE tool = "open-auction" -> Lit("Failed to create auction: ")
      [] tool = "create-bid" -> Lit("Failed to create bid: ")
      [] tool = "pay" -> Lit("Payment failed: ")
      [] OTHER -> Lit("Failed to close auction: ")

\* the state-changing handlers, from the return of runCommand
TxReturn ==
    /\ h.pc = "tx"
    /\ rc.pc = "ret"
    /\ rc' = IdleRc
    /\ IF ~rc.err.nil
       THEN Return(Result(FailureWords(h.tool) \o rc.err.msg \o Lit("\nOutput: ")
                          \o rc.out, "execution"))
       ELSE Return(Result(rc.out, "ok"))
    /\ UNCHANGED <<chain, outs, slept, fvars, spawned, agg>>

(***************************************************************************)
(* The server: one tool call over a ledger.                                *)
(***************************************************************************)
\* the ledgers a call runs over: empty; small; of more than one page, with
\* entries that are no objects; and one whose swechaind serves one record a
\* page, with more pages than the ceiling allows
Ledgers ==
    {NoChain,
     [auctions |-> 3, bids |-> 4, owners |-> 2, keys |-> 2,
      pageSize |-> pageLimit, junk |-> FALSE],
     [auctions |-> pageLimit + 1, bids |-> 2, owners |-> 3, keys |-> 1,
      pageSize |-> pageLimit, junk |-> TRUE],
     [auctions |-> (maxPages + 1) * pageLimit, bids |-> 0, owners |-> 0, keys |-> 0,
      pageSize |-> 1, junk |-> FALSE]}

Spaced(s) == <<Ch(" ")>> \o s \o <<Ch("\n")>>

Addresses == {<<>>, ShortAddr, Addr, Spaced(Addr)}
Texts == {<<>>, Lit("fix")}
Ids == {<<>>, Str(<<"2">>), Str(<<"x">>)}
BidIds == {<<>>, Str(<<"a", "l", "l">>), Spaced(Str(<<"A", "L", "L">>)),
           Str(<<"2">>), Str(<<"x">>), Str(<<"-", "3">>)}

Init ==
    /\ chain \in Ledgers
    /\ rc = IdleRc
    /\ outs = <<>>
    /\ slept = <<>>
    /\ f = IdleF
    /\ requested = <<>>
    /\ served = <<>>
    /\ h = IdleH
    /\ hres = NoResult
    /\ spawned = {}
    /\ agg = IdleAgg

Next ==
    \/ \E keyName \in {<<>>, <<Ch(" ")>>, Spaced(Lit("alice"))} :
          InvokeGetAddressForKey([NoArgs EXCEPT !.keyName = keyName])
    \/ GetAddressForKeyReturn
    \/ \E address \in Addresses : InvokeGetBalance([NoArgs EXCEPT !.address = address])
    \/ GetBalanceReturn
    \/ \E tool \in AuctionTools, operation \in Texts :
          InvokeAuctionQuery(tool, [NoArgs EXCEPT !.operation = operation])
    \/ GotAuctions
    \/ GotBids
    \/ AuctionQueryReturn
    \/ StatusGotOwners
    \/ StatusReturn
    \/ \E auctionId \in BidIds : InvokeQueryBids([NoArgs EXCEPT !.auctionId = auctionId])
    \/ QueryBidsReturn
    \/ \E operation \in Texts : InvokeGetKeys([NoArgs EXCEPT !.operation = operation])
    \/ GetKeysReturn
    \/ \E issue \in Texts, description \in Texts, from \in Addresses, status \in Texts :
          InvokeOpenAuction([NoArgs EXCEPT !.issue = issue, !.description = description,
                                           !.from = from, !.status = status])
    \/ \E auctionId \in Ids, bidder \in {<<>>, ShortAddr, Addr}, from \in {<<>>, ShortAddr, Addr},
          amount \in Texts :
          InvokeCreateBid([NoArgs EXCEPT !.auctionId = auctionId, !.bidder = bidder,
                                         !.from = from, !.amount = amount])
    \/ \E from \in {<<>>, ShortAddr, Addr}, to \in {<<>>, ShortAddr, Addr}, amount \in Texts :
          InvokePay([NoArgs EXCEPT !.from = from, !.to = to, !.amount = amount])
    \/ \E auctionId \in Ids, status \in Texts, from \in {<<>>, ShortAddr, Addr},
          issue \in Texts, description \in Texts, winner \in Texts :
          InvokeCloseAuction([NoArgs EXCEPT !.auctionId = auctionId, !.status = status,
                                            !.from = from, !.issue = issue,
                                            !.description = description,
                                            !.winner = winner])
    \/ TxReturn
    \/ FetchRequest
    \/ FetchCeiling
    \/ FetchPage
    \/ FetchDelay
    \/ RunLaunch
    \/ rc.pc = "running" /\ \E out \in Answers(rc.argv) : RunFinish(out)
    \/ RunBackoff
    \/ RunExhausted

Spec == Init /\ [][Next]_vars

(***************************************************************************)
(* Progress: every subprocess attempt ends, and the program takes its next *)
(* step.                                                                   *)
(***************************************************************************)
\* the steps of runCommand; cmd.Run returns within commandTimeout because the
\* context of the attempt expires (line 205)
RunSteps ==
    \/ RunLaunch
    \/ rc.pc = "running" /\ \E out \in Answers(rc.argv) : RunFinish(out)
    \/ RunBackoff
    \/ RunExhausted

\* the steps of the loop of fetchPaginatedData that wait for no answer
LoopSteps ==
    \/ FetchRequest
    \/ FetchCeiling
    \/ FetchDelay

\* fetchPaginatedData holds the answer of runCommand and has not yet taken it:
\* exactly then FetchPage is enabled, and FetchPage ends it
FetchPending == f.pc = "wait" /\ rc.pc = "ret"

\* a handler holds the answer of the call it made and has not yet taken it:
\* exactly then one of its continuations is enabled, and taking it ends it
HandlerPending ==
    \/ h.pc \in {"auctions", "bids"} /\ f.pc = "ret"
    \/ h.pc \in {"keyshow", "balances", "owners", "keys", "tx"} /\ rc.pc = "ret"

(***************************************************************************)
(* Cancellation of a call in flight.                                       *)
(***************************************************************************)
\* the client cancels the call: the ctx the handler was given is cancelled.
\* No handler reads its ctx, and runCommand derives the context of every
\* attempt from context.Background() (line 205), so nothing else changes
Cancel ==
    /\ h.pc \notin {"idle", "done"}
    /\ ~h.cancelled
    /\ h' = [h EXCEPT !.cancelled = TRUE]
    /\ UNCHANGED <<chain, rvars, fvars, hres, spawned, agg>>

\* a small ledger and the one that reaches the page ceiling
FewLedgers == {l \in Ledgers : l.junk = FALSE /\ l.auctions > 0}

InitCancel ==
    /\ Init
    /\ chain \in FewLedgers

NextCancel ==
    \/ Next
    \/ Cancel

SpecCancel == InitCancel /\ [][NextCancel]_vars

InitLive ==
    /\ Init
    /\ chain \in FewLedgers

\* weak fairness of every step of a call in flight; for the steps that take
\* an answer it is written with their enabling conditions
SpecLive ==
    /\ InitLive
    /\ [][Next]_vars
    /\ WF_vars(RunSteps \/ LoopSteps)
    /\ []<>~FetchPending
    /\ []<>~HandlerPending

(***************************************************************************)
(* Claims about runCommand, checked under SpecRun.                         *)
(***************************************************************************)
AllSpace(s) == \A j \in 1..Len(s) : IsSpace(s[j])

\* t is s without the white space around it
IsTrimOf(t, s) ==
    /\ t = <<>> \/ (~IsSpace(t[1]) /\ ~IsSpace(t[Len(t)]))
    /\ \E a \in 0..Len(s) : \E b \in a..Len(s) :
          /\ t = SubSeq(s, a + 1, b)
          /\ AllSpace(SubSeq(s, 1, a))
          /\ AllSpace(SubSeq(s, b + 1, Len(s)))

\* C1: one runCommand call launches the program at most 3 times; only the
\* last attempt made can have succeeded, and once an attempt has succeeded the
\* call has returned that attempt's stdout, trimmed of the white space around
\* it, with a nil error, whatever its stderr; nothing is launched after it.
C1_StopsAtFirstSuccess ==
    /\ rc.launched <= 3
    /\ Len(outs) <= rc.launched
    /\ \A j \in 1..Len(outs) :
          outs[j].err.nil =>
             /\ j = Len(outs)
             /\ rc.launched = j
             /\ rc.pc = "ret"
             /\ rc.err = NoError
             /\ IsTrimOf(rc.out, outs[j].stdout)

\* C1 witness: the second attempt succeeded with white space around its
\* stdout and something on stderr, and the call returned.
C1_Witness ==
    /\ rc.pc = "ret"
    /\ Len(outs) = 2
    /\ outs[2].err.nil
    /\ outs[2].stdout = <<Ch(" "), Ch("a")>>
    /\ outs[2].stderr # <<>>
    /\ rc.out = <<Ch("a")>>

SumSeq(s) == IF s = <<>> THEN 0 ELSE
    LET RECURSIVE Sum(_)
        Sum(k) == IF k = 0 THEN 0 ELSE s[k] + Sum(k - 1)
    IN Sum(Len(s))

\* C2: the j-th sleep of a call lasts j seconds and comes after the j-th
\* failed attempt, before the launch of attempt j+1; a call that returns the
\* success of its k-th attempt has slept 1+...+(k-1) seconds in all (0, 1 or
\* 3), and there is no sleep after the third failed attempt.
C2_LinearBackoff ==
    /\ \A j \in 1..Len(slept) : slept[j] = j
    /\ Len(slept) <= 2
    /\ rc.pc \in {"running", "sleep"} => Len(slept) = rc.launched - 1
    /\ rc.pc = "start" /\ Len(outs) < 3 => Len(slept) = Len(outs)
    /\ rc.pc = "start" /\ Len(outs) = 3 => Len(slept) = 2
    /\ rc.pc = "ret" =>
          LET k == Len(outs) IN
          /\ Len(slept) = k - 1
          /\ SumSeq(slept) = ((k - 1) * k) \div 2
          /\ SumSeq(slept) \in {0, 1, 3}
          /\ rc.err.nil => outs[k].err.nil
          /\ ~rc.err.nil => k = 3 /\ SumSeq(slept) = 3

\* C2 witness: a call that succeeded at its third attempt, after 1 s + 2 s.
C2_Witness ==
    /\ rc.pc = "ret"
    /\ rc.err.nil
    /\ Len(outs) = 3
    /\ slept = <<1, 2>>

\* C3: a call that returns an error has made 3 attempts, all failed; it
\* returns the empty text and the error "command failed: <err>\nSTDOUT:
\* <stdout>\nSTDERR: <stderr>" of the third attempt, stdout untrimmed.
C3_LastAttemptError ==
    rc.pc = "ret" /\ ~rc.err.nil =>
       /\ Len(outs) = 3
       /\ \A j \in 1..3 : ~outs[j].err.nil
       /\ rc.out = <<>>
       /\ rc.err.msg = <<Ch("command failed: ")>> \o outs[3].err.msg
                        \o <<Ch("\nSTDOUT: ")>> \o outs[3].stdout
                        \o <<Ch("\nSTDERR: ")>> \o outs[3].stderr

\* C3 witness: three failed attempts that differ in error, stdout and stderr.
C3_Witness ==
    /\ rc.pc = "ret"
    /\ ~rc.err.nil
    /\ outs[1].err # outs[3].err
    /\ outs[1].stdout # outs[3].stdout
    /\ outs[2].stderr # outs[3].stderr
    /\ outs[3].stdout = <<Ch(" "), Ch("a")>>

(***************************************************************************)
(* Claims about fetchPaginatedData, checked under SpecFetch.               *)
(***************************************************************************)
\* the records of a page: its entries that are JSON objects
RecordsOf(page) == SelectSeq(page, LAMBDA e : e.t = "obj")

\* the records of the pages, page after page
RECURSIVE RecordsOfAll(_)
RecordsOfAll(pages) ==
    IF pages = <<>> THEN <<>>
    ELSE RecordsOfAll(SubSeq(pages, 1, Len(pages) - 1))
         \o RecordsOf(pages[Len(pages)])

AllRecords(page) == \A j \in 1..Len(page) : page[j].t = "obj"

\* C4: the offsets one fetch hands to runCommand are 0, 50, 100, ... in this
\* order, each once, with page limit 50; an offset is requested only when
\* every page before it was answered with success and a non-empty array.
C4_SequentialPages ==
    /\ \A j \in 1..Len(requested) : requested[j] = 50 * (j - 1)
    /\ \A j \in 1..Len(served) : served[j] # <<>>
    /\ Len(requested) \in {Len(served), Len(served) + 1}
    /\ f.pc = "wait" => Len(requested) = Len(served) + 1
    /\ f.pc \in {"loop", "sleep"} => Len(requested) = Len(served)
    /\ rc.caller = "fetch" =>
          /\ f.pc = "wait"
          /\ rc.argv[8] = <<Ch("--page-offset")>>
          /\ Atoi(rc.argv[9]) = [ok |-> TRUE, val |-> requested[Len(requested)]]
          /\ rc.argv[10] = <<Ch("--page-limit")>>
          /\ rc.argv[11] = <<Ch("5"), Ch("0")>>

\* C4 witness: the third page request is running, after two served pages.
C4_Witness ==
    /\ rc.pc = "running"
    /\ rc.caller = "fetch"
    /\ requested = <<0, 50, 100>>
    /\ Len(served) = 2

\* C5: a fetch that stops at a page whose key is absent, no array or empty,
\* after n non-empty pages, has n < 10, has made n+1 requests and returns the
\* records of the n pages in fetch order; three pages of 50 records and an
\* empty one give 150 records after 4 requests.
C5_StopsAtEmptyPage ==
    f.pc = "ret" /\ f.stop = "empty" =>
       /\ Len(served) < 10
       /\ Len(requested) = Len(served) + 1
       /\ f.allResults = RecordsOfAll(served)
       /\ (Len(served) = 3 /\ \A j \in 1..3 :
              Len(served[j]) = 50 /\ AllRecords(served[j]))
            => Len(f.allResults) = 150 /\ Len(requested) = 4

\* C5 witness: pages of 50, 50, 50 records and then an empty page.
C5_Witness ==
    /\ f.pc = "ret"
    /\ f.stop = "empty"
    /\ Len(served) = 3
    /\ \A j \in 1..3 : Len(served[j]) = 50 /\ AllRecords(served[j])
    /\ Len(f.allResults) = 150
    /\ Len(requested) = 4

\* C6 as claimed: whatever the external source does, a fetch makes at most 10
\* page requests and holds at most 500 records, and a fetch that stops at the
\* ceiling has made exactly 10 requests and returns exactly 500 records.
C6_Original ==
    /\ Len(requested) <= 10
    /\ Len(f.allResults) <= 500
    /\ f.pc = "ret" /\ f.stop = "ceiling" =>
          Len(requested) = 10 /\ Len(f.allResults) = 500

\* C6 as amended: a fetch makes at most 10 page requests and holds the
\* records of the pages served, so at most 500 when no page has more than 50
\* records; a fetch that meets no empty page and no failure stops after
\* exactly 10 requests, with exactly 500 records when each page has 50.
C6_PageCeiling ==
    /\ Len(requested) <= 10
    /\ Len(served) <= 10
    /\ f.pc \in {"loop", "sleep", "ret"} => f.allResults = RecordsOfAll(served)
    /\ (\A j \in 1..Len(served) : Len(RecordsOf(served[j])) <= 50)
          => Len(f.allResults) <= 500
    /\ f.pc = "ret" /\ f.stop = "ceiling" =>
          /\ Len(requested) = 10
          /\ Len(served) = 10
          /\ (\A j \in 1..10 : Len(RecordsOf(served[j])) = 50)
                => Len(f.allResults) = 500

\* C6 witness: ten pages of 50 records, and the fetch stopped at the ceiling.
C6_Witness ==
    /\ f.pc = "ret"
    /\ f.stop = "ceiling"
    /\ Len(requested) = 10
    /\ \A j \in 1..10 : Len(RecordsOf(served[j])) = 50
    /\ Len(f.allResults) = 500

(***************************************************************************)
(* Claims about buildAuctionSummaryResponse, checked under SpecAgg.        *)
(***************************************************************************)
\* the places in the bid input of the bids of the j-th auction
MatchesOf(j) ==
    {k \in 1..Len(agg.bids) : agg.bids[k].AuctionID = agg.auctions[j].ID}

\* the m-th smallest member of a set of numbers
NthOf(S, m) == CHOOSE k \in S : Cardinality({x \in S : x <= k}) = m

LastOf(S) == CHOOSE k \in S : \A x \in S : x <= k

\* C8: there is one view per input auction, in auction input order; a view's
\* bids are the input bids whose auction identifier is the auction's, in bid
\* input order, and its current bid amount is the amount of the last of them,
\* or "0token" when there is none.  Auctions 1, 2 with bids (1, "5token"),
\* (1, "9token") give "9token" for auction 1 and "0token" for auction 2.
C8_JoinLastMatchWins ==
    agg.pc = "done" =>
       LET views == agg.resp.Details.Auctions IN
       /\ Len(views) = Len(agg.auctions)
       /\ \A j \in 1..Len(views) :
             LET own == MatchesOf(j) IN
             /\ views[j].AuctionID = agg.auctions[j].ID
             /\ Len(views[j].Bids) = Cardinality(own)
             /\ \A m \in 1..Cardinality(own) :
                   /\ views[j].Bids[m].Amount = agg.bids[NthOf(own, m)].Amount
                   /\ views[j].Bids[m].Bidder = agg.bids[NthOf(own, m)].Bidder
             /\ own = {} => Join(views[j].CurrentBidAmount) = "0token"
             /\ own # {} =>
                   /\ views[j].CurrentBidAmount = agg.bids[LastOf(own)].Amount
                   /\ views[j].CurrentBidAmount
                        = views[j].Bids[Len(views[j].Bids)].Amount
       /\ (/\ Len(agg.auctions) = 2
           /\ agg.auctions[1].ID = 1 /\ agg.auctions[2].ID = 2
           /\ Len(agg.bids) = 2
           /\ agg.bids[1].AuctionID = 1 /\ Join(agg.bids[1].Amount) = "5token"
           /\ agg.bids[2].AuctionID = 1 /\ Join(agg.bids[2].Amount) = "9token")
          => /\ Join(views[1].CurrentBidAmount) = "9token"
             /\ Join(views[2].CurrentBidAmount) = "0token"

\* C8 witness: auctions 1, 2 and bids (1, 5token), (3, 9token), (1, 9token),
\* joined: auction 1 has two bids, auction 2 none, the bid for 3 is dropped.
C8_Witness ==
    /\ agg.pc = "done"
    /\ Len(agg.auctions) = 2
    /\ agg.auctions[1].ID = 1 /\ agg.auctions[2].ID = 2
    /\ Len(agg.bids) = 3
    /\ agg.bids[1].AuctionID = 1 /\ Join(agg.bids[1].Amount) = "5token"
    /\ agg.bids[2].AuctionID = 3
    /\ agg.bids[3].AuctionID = 1 /\ Join(agg.bids[3].Amount) = "9token"
    /\ Len(agg.resp.Details.Auctions[1].Bids) = 2
    /\ Join(agg.resp.Details.Auctions[1].CurrentBidAmount) = "9token"
    /\ Join(agg.resp.Details.Auctions[2].CurrentBidAmount) = "0token"

\* a number from 0 to 99 in decimal
Dec(n) ==
    LET D(d) == CASE d = 0 -> "0" [] d = 1 -> "1" [] d = 2 -> "2" [] d = 3 -> "3"
                  [] d = 4 -> "4" [] d = 5 -> "5" [] d = 6 -> "6" [] d = 7 -> "7"
                  [] d = 8 -> "8" [] OTHER -> "9"
    IN IF n < 10 THEN D(n) ELSE D(n \div 10) \o D(n % 10)

\* the auctions of the input that have at least one matching bid
WithBids == {j \in 1..Len(agg.auctions) : MatchesOf(j) # {}}

\* C9: in mode "open" the summary is "No open auctions found." for no
\* auction, and for N > 0 auctions of which W have a matching bid it is
\* "There are N open auctions (W with bids, N-W without bids)."; 3 auctions
\* of which 2 have bids give "There are 3 open auctions (2 with bids, 1
\* without bids)."
C9_OpenSummary ==
    agg.pc = "done" /\ agg.auctionType = "open" =>
       LET N == Len(agg.auctions)
           W == Cardinality(WithBids)
           text == Join(agg.resp.Summary)
       IN /\ 0 <= W /\ W <= N
          /\ N = 0 => text = "No open auctions found."
          /\ N > 0 => text = "There are " \o Dec(N) \o " open auctions ("
                              \o Dec(W) \o " with bids, " \o Dec(N - W)
                              \o " without bids)."
          /\ N = 3 /\ W = 2 =>
                text = "There are 3 open auctions (2 with bids, 1 without bids)."

\* C9 witness: 3 open auctions, 2 of them with bids, one of these with two.
C9_Witness ==
    /\ agg.pc = "done"
    /\ agg.auctionType = "open"
    /\ Len(agg.auctions) = 3
    /\ Cardinality(WithBids) = 2
    /\ Len(agg.bids) = 3
    /\ Join(agg.resp.Summary)
         = "There are 3 open auctions (2 with bids, 1 without bids)."

(***************************************************************************)
(* Claims about the handlers, checked under Spec.                          *)
(***************************************************************************)
\* the tools whose handlers call fetchPaginatedData
FetchingTools == AuctionTools \cup {"query-bids-for-auction"}

\* the aggregate an auction handler owes for the pages its fetches were served
AggregateOf(tool, pages, owners) ==
    LET auctions == parseAuctions(RecordsOfAll(pages[1]))
        bids == parseBids(RecordsOfAll(pages[2]))
    IN IF tool = "query-open-auctions"
       THEN AuctionSummaryJson(buildAuctionSummaryResponse(
                SelectSeq(auctions, IsOpen), bids, owners, "open"))
       ELSE AuctionSummaryJson(buildAuctionSummaryResponse(auctions, bids, owners, "all"))

\* C7: when runCommand reports an error for the page at offset 50*k, which it
\* does only after maxRetries launches, fetchPaginatedData has been served
\* exactly the k pages before it, requests no further page and returns the
\* records of those k pages; a handler one of whose fetches stopped so still
\* returns a successful result, and the auction handlers return the aggregate
\* built from the records of the pages that were served.
C7_PartialOnError ==
    /\ (rc.pc = "ret" /\ rc.caller = "fetch" /\ ~rc.err.nil)
          => rc.launched = maxRetries
    /\ f.errors >= 1 =>
          /\ f.errors = 1
          /\ f.pc = "ret"
          /\ f.stop = "error"
          /\ Len(requested) = Len(served) + 1
          /\ requested[Len(requested)] = 50 * Len(served)
          /\ f.allResults = RecordsOfAll(served)
    /\ (h.pc = "done" /\ h.tool \in FetchingTools
        /\ \E j \in 1..Len(h.stops) : h.stops[j] = "error") =>
          /\ ~hres.protocolError
          /\ hres.kind \in {"ok", "validation"}
          /\ h.tool = "query-bids-for-auction" =>
                h.rawBids = RecordsOfAll(h.pages[1])
          /\ h.tool \in {"query-open-auctions", "query-all-auctions"} =>
                /\ hres.kind = "ok"
                /\ h.rawAuctions = RecordsOfAll(h.pages[1])
                /\ h.rawBids = RecordsOfAll(h.pages[2])
                /\ hres.text = Marshal(AggregateOf(h.tool, h.pages, h.owners))
          /\ h.tool = "get-blockchain-status" =>
                /\ hres.kind = "ok"
                /\ Get(Get(hres.text[1].d, "details"), "totalAuctions")
                      = JNum(Len(RecordsOfAll(h.pages[1])))
                /\ Get(Get(hres.text[1].d, "details"), "totalBids")
                      = JNum(Len(RecordsOfAll(h.pages[2])))

\* query-all-auctions has returned its aggregate after the auction fetch was
\* served one page and then stopped on the failure of the page at offset 50
C7_Witness ==
    /\ h.pc = "done"
    /\ h.tool = "query-all-auctions"
    /\ h.stops[1] = "error"
    /\ Len(h.pages[1]) = 1
    /\ Len(h.rawAuctions) > 0
    /\ hres.kind = "ok"
    /\ Len(Get(Get(hres.text[1].d, "details"), "auctions").a) = Len(h.rawAuctions)

\* C10: an invocation that ends in a validation error has launched no
\* subprocess, whatever the tool; query-bids-for-auction with an auctionId
\* that is neither a number nor "all" included.
C10_ValidationBeforeSubprocess ==
    (h.pc = "done" /\ hres.kind = "validation") => spawned = {}

(***************************************************************************)
(* Claims about cancellation, checked under SpecCancel.                    *)
(***************************************************************************)
\* C11: once the context of a call in flight is cancelled, no further attempt
\* is launched and no further page is requested for that call.
C11_CancelPropagates ==
    [][h.cancelled =>
          /\ ~(rc.pc = "start" /\ rc'.pc = "running")
          /\ ~(f.pc = "loop" /\ f'.pc = "wait")]_vars

(***************************************************************************)
(* Claims about the results of the handlers, checked under Spec.           *)
(***************************************************************************)
\* part occurs in text
Contains(text, part) ==
    \E j \in 0..(Len(text) - Len(part)) : SubSeq(text, j + 1, j + Len(part)) = part

\* the tools whose handler answers from one runCommand call
DirectTools ==
    {"get-address-for-key", "get-balance", "open-auction", "create-bid", "pay",
     "close-auction"}

C13_Terminates ==
    /\ [](rc.launched <= maxRetries /\ Len(requested) <= maxPages)
    /\ (rc.pc \in {"start", "running", "sleep"}) ~> (rc.pc = "ret")
    /\ (f.pc \in {"loop", "wait", "sleep"}) ~> (f.pc = "ret")
    /\ (h.pc \notin {"idle", "done"}) ~> (h.pc = "done")

\* get-blockchain-status has returned after its auction fetch made 10 page
\* requests and stopped at the ceiling
C13_Witness ==
    /\ h.pc = "done"
    /\ h.tool = "get-blockchain-status"
    /\ h.stops[1] = "ceiling"
    /\ Len(h.pages[1]) = maxPages

\* text is one JSON document, an object with the keys summary and details
IsSummaryAndDetails(text) ==
    /\ Len(text) = 1
    /\ text[1].s = ""
    /\ text[1].d.t = "obj"
    /\ {"summary", "details"} \subseteq DOMAIN text[1].d.o
    /\ text[1].d.o["summary"].t = "str"

\* C14: the text of every successful invocation, of any of the eleven tools,
\* is a JSON document with a summary field and a details field.
C14_SummaryAndDetails ==
    (h.pc = "done" /\ hres.kind = "ok") => IsSummaryAndDetails(hres.text)

(***************************************************************************)
(* Claims about output that is no JSON, checked under Spec.                *)
(***************************************************************************)
\* the last attempt of the last runCommand call printed text that is no JSON
LastWasGarbage == outs # <<>> /\ outs[Len(outs)] = Garbage

\* C15 as stated: a fetch that met output it cannot decode, on whatever page,
\* returns an empty collection.
C15_Original == (f.pc = "ret" /\ f.stop = "parse") => f.allResults = <<>>

\* C15: a fetch that meets output it cannot decode at offset 50*k stops
\* without an error and returns the records of the k pages before it, which
\* is the empty collection exactly when there is none; fetchDenomOwners and
\* getKeys yield the empty collection and the handler still answers with its
\* aggregate; getAddressForKey returns an explicit error, which its handler
\* reports.
C15_ParseErrors ==
    /\ f.stop = "parse" =>
          /\ f.pc = "ret"
          /\ f.errors = 0
          /\ Len(requested) = Len(served) + 1
          /\ f.allResults = RecordsOfAll(served)
          /\ served = <<>> => f.allResults = <<>>
    /\ (h.pc = "done" /\ LastWasGarbage) =>
          /\ h.tool \in {"query-open-auctions", "query-all-auctions"} =>
                /\ h.owners = <<>>
                /\ hres.kind = "ok"
                /\ Get(Get(hres.text[1].d, "details"), "participants") = JNil
          /\ h.tool \in {"get-keys", "get-blockchain-status"} =>
                /\ h.keys = <<>>
                /\ hres.kind = "ok"
          /\ h.tool = "get-keys" =>
                Join(Get(hres.text[1].d, "summary").s) = "Found 0 keys in the keyring"
          /\ h.tool = "get-address-for-key" =>
                /\ hres.kind = "decoding"
                /\ Contains(hres.text, Lit("failed to parse key data: invalid JSON"))
    /\ (h.pc = "done" /\ h.tool \in AuctionTools /\ h.stops[1] = "parse") =>
          /\ h.rawAuctions = RecordsOfAll(h.pages[1])
          /\ hres.kind = "ok"

\* query-all-auctions has answered after its auction fetch was served one
\* page and then met output it could not decode
C15_Witness ==
    /\ h.pc = "done"
    /\ h.tool = "query-all-auctions"
    /\ h.stops[1] = "parse"
    /\ Len(h.pages[1]) = 1
    /\ Len(h.rawAuctions) > 0
    /\ hres.kind = "ok"

(***************************************************************************)
(* Claims about the parsers, checked under SpecParse.                      *)
(***************************************************************************)
\* v is a JSON string of decimal digits
IsDecimal(v) ==
    v.t = "str" /\ v.s # <<>> /\ \A j \in 1..Len(v.s) : IsDigit(v.s[j])

\* C16: parseAuctions and parseBids return one typed record per raw record,
\* in order; every identifier is a non-negative integer: the value of the raw
\* identifier when that is a string of decimal digits, and 0 when it is
\* missing or is no such string.
C16_NonNegativeIds ==
    agg.pc = "parsed" =>
        /\ Len(agg.auctions) = Len(agg.raw)
        /\ Len(agg.bids) = Len(agg.raw)
        /\ \A j \in 1..Len(agg.raw) :
              LET id == Get(agg.raw[j], "id") IN
              /\ agg.auctions[j].ID \in Nat
              /\ agg.bids[j].AuctionID \in Nat
              /\ agg.auctions[j].Issue = Sprintv(Get(agg.raw[j], "issue"))
              /\ IsDecimal(id) => /\ agg.auctions[j].ID = DigitsVal(id.s)
                                  /\ agg.bids[j].AuctionID = DigitsVal(id.s)
              /\ id.t \in {"nil", "arr"} => /\ agg.auctions[j].ID = 0
                                            /\ agg.bids[j].AuctionID = 0

(***************************************************************************)
(* Claims about the arguments, checked under Spec.                         *)
(***************************************************************************)
\* the arguments the tool surface lists as required (the descriptions of the
\* tools, lines 254-307)
RequiredOf(tool) ==
    CASE tool = "get-address-for-key" -> {"keyName"}
      [] tool = "get-balance" -> {"address"}
      [] tool \in AuctionTools \cup {"get-keys"} -> {"operation"}
      [] tool = "query-bids-for-auction" -> {"auctionId"}
      [] tool = "open-auction" -> {"issue", "description", "from"}
      [] tool = "create-bid" -> {"auctionId", "bidder", "from"}
      [] tool = "pay" -> {"from", "to", "amount"}
      [] tool = "close-auction" ->
            {"auctionId", "status", "issue", "description", "winner", "from"}
      [] OTHER -> {}

\* C17: an invocation in which an argument the tool lists as required is
\* empty after trimming returns a validation error, whatever the tool;
\* close-auction with an empty issue, description or winner and the query
\* tools and get-keys with an empty operation included.
C17_RequiredRejected ==
    (h.pc = "done" /\ \E a \in RequiredOf(h.tool) : TrimSpace(h.args[a]) = <<>>)
        => hres.kind = "validation"

(***************************************************************************)
(* Claims about the state-changing tools, checked under Spec.              *)
(***************************************************************************)
TxTools == {"open-auction", "create-bid", "pay", "close-auction"}

\* C18: a state-changing invocation that passes validation calls runCommand
\* once and nothing else: the transaction command is launched at least once
\* and at most 3 times, always with the same argument list, and again only
\* after every earlier launch ended in failure; one that fails validation
\* launches nothing.
C18_OneTransactionCall ==
    h.tool \in TxTools =>
        /\ h.calls <= 1
        /\ f = IdleF /\ requested = <<>>
        /\ Cardinality(spawned) <= 1
        /\ \A argv \in spawned :
              /\ Join(argv[1]) = "tx"
              /\ (argv = rc.argv \/ rc = IdleRc)
        /\ rc.launched <= maxRetries
        /\ rc.pc \in {"start", "sleep"} => rc.launched = Len(outs)
        /\ rc.pc = "running" => rc.launched = Len(outs) + 1
        /\ \A j \in 1..Len(outs) :
              (j < Len(outs) \/ rc.pc \in {"start", "sleep", "running"})
                  => ~outs[j].err.nil
        /\ h.pc = "done" =>
              /\ hres.kind \in {"validation", "ok", "execution"}
              /\ hres.kind = "validation" => h.calls = 0 /\ spawned = {} /\ outs = <<>>
              /\ hres.kind # "validation" =>
                    /\ h.calls = 1
                    /\ Cardinality(spawned) = 1
                    /\ Len(outs) \in 1..maxRetries
              /\ hres.kind = "ok" => outs[Len(outs)].err.nil
              /\ hres.kind = "execution" =>
                    /\ Len(outs) = maxRetries
                    /\ ~outs[maxRetries].err.nil

\* pay has returned the output of its third launch, after two failures
C18_Witness ==
    /\ h.pc = "done"
    /\ h.tool = "pay"
    /\ hres.kind = "ok"
    /\ Len(outs) = maxRetries
    /\ ~outs[1].err.nil
    /\ ~outs[2].err.nil
    /\ Cardinality(spawned) = 1

====
